---- MODULE Spec2Model ----
(***************************************************************************)
(* Model of the Tic-Tac-Toe session engine: the GameBoard component        *)
(* (React state + async handlers), the board evaluator checkWinner, and    *)
(* the remote authority the handlers call through the api client.          *)
(*                                                                         *)
(* The component is single-threaded: a handler runs without interruption   *)
(* up to its next `await`, so every action below is one such synchronous   *)
(* block.  Handlers read the state of the latest render; the model reads   *)
(* the current state.  The model covers the mounted lifetime of the        *)
(* component.                                                              *)
(***************************************************************************)
EXTENDS Integers, Sequences, FiniteSets, TLC

\* ------------------------------------------------------------------ bounds

\* Number of async handler invocations that may be suspended at the same time.
MaxInFlight == 2

\* In Spec the user clicks cells 0..MaxCell (SpecOffline clicks all nine).
MaxCell == 1

\* In Spec the user starts at most MaxEvents handler invocations (accepted
\* clicks, resets, navbar New Game events) after the mount.
MaxEvents == 3

\* In SpecRace the user clicks cells 0..MaxRaceCell.
MaxRaceCell == 2

\* User events that start remote work in one behaviour of SpecLive.
MaxLiveEvents == 2

\* ------------------------------------------------------------ basic values

BoardSize == 9

Cells == 0 .. (BoardSize - 1)

\* JavaScript null / undefined.
Null == "null"

Marks == {"X", "O"}

EmptyBoard == [c \in Cells |-> Null]

AllBoards == [Cells -> Marks \cup {Null}]

ClickCells == 0 .. MaxCell

RaceCells == 0 .. MaxRaceCell

\* ------------------------------------------------------- Board Evaluator

winningLines ==
  << <<0, 1, 2>>, <<3, 4, 5>>, <<6, 7, 8>>,
     <<0, 3, 6>>, <<1, 4, 7>>, <<2, 5, 8>>,
     <<0, 4, 8>>, <<2, 4, 6>> >>

\* winningLines with the last diagonal mistyped.
winningLinesSkewed ==
  << <<0, 1, 2>>, <<3, 4, 5>>, <<6, 7, 8>>,
     <<0, 3, 6>>, <<1, 4, 7>>, <<2, 5, 8>>,
     <<0, 4, 8>>, <<2, 4, 5>> >>

\* The test of the loop body: b[a] && b[a] === b[c] && b[a] === b[d].
LineHit(lines, b, k) ==
  /\ b[lines[k][1]] # Null
  /\ b[lines[k][1]] = b[lines[k][2]]
  /\ b[lines[k][1]] = b[lines[k][3]]

\* The for-loop of checkWinner: the first line that matches decides.
RECURSIVE ScanLines(_, _, _)
ScanLines(lines, b, k) ==
  IF k > Len(lines) THEN Null
  ELSE IF LineHit(lines, b, k) THEN b[lines[k][1]]
  ELSE ScanLines(lines, b, k + 1)

\* checkWinner that calls a board a draw as soon as no line matches.
checkWinnerEagerDraw(b) ==
  LET hit == ScanLines(winningLines, b, 1)
  IN  IF hit # Null THEN hit ELSE "draw"

\* checkWinner scanning the mistyped table.
checkWinnerSkewed(b) ==
  LET hit == ScanLines(winningLinesSkewed, b, 1)
  IN  IF hit # Null THEN hit
      ELSE IF \A c \in Cells : b[c] = "X" \/ b[c] = "O" THEN "draw"
      ELSE Null

checkWinner(b) ==
  LET hit == ScanLines(winningLines, b, 1)
  IN  IF hit # Null THEN hit
      ELSE IF \A c \in Cells : b[c] = "X" \/ b[c] = "O" THEN "draw"
      ELSE Null

Flip(p) == IF p = "X" THEN "O" ELSE "X"

\* ------------------------------------------------------------------ state

VARIABLES
  board,          \* useState(Array(9).fill(null))
  currentPlayer,  \* useState('X')
  status,         \* useState({ state: 'idle', winner: null })
  gameId,         \* useState(null)
  players,        \* useState({ X: null, O: null })
  moves,          \* useState([])
  isBusy,         \* useState(false)
  error,          \* useState(null)
  mounted,        \* the mount effect has run
  ops,            \* suspended handler invocations, one per slot
  server,         \* the remote authority's games
  events,         \* history variable: handler invocations the user has started
  lastEvent,      \* history variable: the last step that began or ended a handler's remote work
  notified,       \* history variable: the 'active-game-changed' events dispatched by the
                  \* last step that created or re-created the session
  resetFrom,      \* history variable: status.state when the last resetGame was accepted
  evalBoard,      \* input of the evaluator (SpecEval)
  evalResult,     \* what checkWinner returned for evalBoard (SpecEval)
  pureIn,         \* arguments of a call of a function outside the component
  pureOut,        \* what that call returned
  sidebar         \* Sidebar, HistoryPanel and LeaderboardPanel: their useState
                  \* values, their fetches awaiting an answer, and history
                  \* fields (requests, last, and shownFor: the identifier of
                  \* the request whose outcome the history panel holds)

sessionVars ==
  <<board, currentPlayer, status, gameId, players, moves, isBusy, error,
    mounted, ops, server, lastEvent, notified, resetFrom>>

evalVars == <<evalBoard, evalResult, pureIn, pureOut, sidebar>>

vars ==
  <<board, currentPlayer, status, gameId, players, moves, isBusy, error,
    mounted, ops, server, events, lastEvent, notified, resetFrom, evalBoard,
    evalResult,
    pureIn, pureOut, sidebar>>

Slots == 1 .. MaxInFlight

\* Game identifiers are opaque and fresh; a number is reused once nothing
\* refers to it any more.
IdNums == 1 .. (MaxInFlight + 1)

NoId == [kind |-> "none", n |-> 0]

NoOp ==
  [kind |-> "none", pc |-> "-", px |-> Null, po |-> Null, index |-> 0,
   snapshotBoard |-> EmptyBoard, snapshotPlayer |-> "X", gId |-> NoId,
   closureStatus |-> "idle", stale |-> FALSE]

\* A game the remote does not (or no longer needs to) know.
DeadGame ==
  [live |-> FALSE, board |-> EmptyBoard, currentPlayer |-> "X",
   status |-> "in-progress", winner |-> Null]

\* A game as the remote creates it.
NewServerGame ==
  [live |-> TRUE, board |-> EmptyBoard, currentPlayer |-> "X",
   status |-> "in-progress", winner |-> Null]

InFlight == {s \in Slots : ops[s].kind # "none"}

FreeSlot == CHOOSE s \in Slots : ops[s].kind = "none" /\ \A t \in Slots : ops[t].kind = "none" => s <= t

Refs(gid, os) == {gid.n} \cup {os[s].gId.n : s \in Slots}

FreshNum ==
  CHOOSE n \in IdNums :
    /\ n \notin Refs(gameId, ops)
    /\ \A m \in IdNums : m \notin Refs(gameId, ops) => n <= m

\* The remote forgets nothing; the model drops the games no identifier held
\* by the client names.
Collect(srv, gid, os) ==
  [n \in IdNums |-> IF n \in Refs(gid, os) THEN srv[n] ELSE DeadGame]

HasId(p) == p = "remote" \/ p = "mock"

Terminal(st) == st = "won" \/ st = "draw"

\* --------------------------------------------------- the remote authority

\* What a create-player call can come back with: a rejection, a player
\* object with an id, or a JSON null body.
PlayerResponses == {"fail", "remote", Null}

\* What a create-game call can come back with.  A game object may omit any
\* of board / currentPlayer / status ("has" lists the fields it carries).
GameResponses ==
  {[kind |-> "fail", has |-> {}], [kind |-> "null", has |-> {}]}
    \cup {[kind |-> "ok", has |-> h] : h \in SUBSET {"board", "currentPlayer", "status"}}

\* What a post-move call can come back with; an object may omit any field.
MoveResponses ==
  {[kind |-> "fail", has |-> {}], [kind |-> "null", has |-> {}]}
    \cup {[kind |-> "ok", has |-> h] :
            h \in SUBSET {"board", "status", "currentPlayer", "winner"}}

FailOnly == {[kind |-> "fail", has |-> {}]}

\* The remote's own bookkeeping of a move: it places the mark of the side
\* it has on turn and re-evaluates its board.
ServerMove(sg, position) ==
  LET nextBoard == [sg.board EXCEPT ![position] = sg.currentPlayer]
      outcome == checkWinner(nextBoard)
      newStatus == IF outcome = "draw" THEN "draw"
                   ELSE IF outcome \in Marks THEN "won" ELSE "in-progress"
  IN  [live |-> TRUE,
       board |-> nextBoard,
       currentPlayer |-> IF newStatus = "in-progress"
                         THEN Flip(sg.currentPlayer) ELSE sg.currentPlayer,
       status |-> newStatus,
       winner |-> IF outcome \in Marks THEN outcome ELSE Null]

\* The remote accepts a move for a game it knows, that is still running,
\* on a cell that is empty on its board.
ServerAccepts(gId, position) ==
  /\ gId.kind = "remote"
  /\ server[gId.n].live
  /\ server[gId.n].status = "in-progress"
  /\ server[gId.n].board[position] = Null

\* ------------------------------------------------- safeCreate* / safePostMove

safeCreatePlayer(r) == IF r = "fail" THEN "mock" ELSE r

MockGame(n) ==
  [isNull |-> FALSE, id |-> [kind |-> "mock", n |-> n], board |-> EmptyBoard,
   currentPlayer |-> "X", status |-> "in-progress", winner |-> Null,
   has |-> {"board", "currentPlayer", "status"}]

\* safeCreateGame without its catch branch: a rejected call yields no game.
safeCreateGameNoFallback(r, n) ==
  [isNull |-> r.kind # "ok", id |-> [kind |-> "remote", n |-> n],
   board |-> NewServerGame.board,
   currentPlayer |-> NewServerGame.currentPlayer,
   status |-> NewServerGame.status, winner |-> Null, has |-> r.has]

\* The value `g` of init / resetGame: the remote's game object, the mock
\* game of the catch branch, or null.
safeCreateGame(r, n) ==
  IF r.kind = "fail" THEN MockGame(n)
  ELSE [isNull |-> r.kind = "null", id |-> [kind |-> "remote", n |-> n],
        board |-> NewServerGame.board,
        currentPlayer |-> NewServerGame.currentPlayer,
        status |-> NewServerGame.status, winner |-> Null, has |-> r.has]

\* SessionOf with the status default mistyped as the initial 'idle'.
SessionOfIdleDefault(g) ==
  [gameId |-> g.id,
   board |-> IF "board" \in g.has THEN g.board ELSE EmptyBoard,
   currentPlayer |-> IF "currentPlayer" \in g.has THEN g.currentPlayer ELSE "X",
   status |-> [state |-> IF "status" \in g.has THEN g.status ELSE "idle",
               winner |-> IF "winner" \in g.has THEN g.winner ELSE Null],
   moves |-> << >>]

\* setGameId / setBoard / setCurrentPlayer / setStatus / setMoves of init and
\* resetGame, with the `||` defaults.
SessionOf(g) ==
  [gameId |-> g.id,
   board |-> IF "board" \in g.has THEN g.board ELSE EmptyBoard,
   currentPlayer |-> IF "currentPlayer" \in g.has THEN g.currentPlayer ELSE "X",
   status |-> [state |-> IF "status" \in g.has THEN g.status ELSE "in-progress",
               winner |-> IF "winner" \in g.has THEN g.winner ELSE Null],
   moves |-> << >>]

\* LocalMove that flips the side to move whatever the outcome.
LocalMoveAlwaysFlip(position, localBoard, localPlayer, closureStatus) ==
  IF localBoard[position] # Null
  THEN [board |-> localBoard, currentPlayer |-> localPlayer,
        status |-> closureStatus, winner |-> Null,
        has |-> {"board", "currentPlayer", "status"}]
  ELSE LET nextBoard == [localBoard EXCEPT ![position] = localPlayer]
           outcome == checkWinner(nextBoard)
           newStatus == IF outcome = "draw" THEN "draw"
                        ELSE IF outcome = "X" \/ outcome = "O" THEN "won"
                        ELSE "in-progress"
       IN  [board |-> nextBoard,
            currentPlayer |-> Flip(localPlayer),
            status |-> newStatus,
            winner |-> IF outcome = "X" \/ outcome = "O" THEN outcome ELSE Null,
            has |-> {"board", "currentPlayer", "status", "winner"}]

\* safePostMove's catch branch returning status won without its winner.
LocalMoveWinnerDropped(position, localBoard, localPlayer, closureStatus) ==
  IF localBoard[position] # Null
  THEN [board |-> localBoard, currentPlayer |-> localPlayer,
        status |-> closureStatus, winner |-> Null,
        has |-> {"board", "currentPlayer", "status"}]
  ELSE LET nextBoard == [localBoard EXCEPT ![position] = localPlayer]
           outcome == checkWinner(nextBoard)
           newStatus == IF outcome = "draw" THEN "draw"
                        ELSE IF outcome = "X" \/ outcome = "O" THEN "won"
                        ELSE "in-progress"
       IN  [board |-> nextBoard,
            currentPlayer |-> IF newStatus = "in-progress"
                              THEN Flip(localPlayer) ELSE localPlayer,
            status |-> newStatus,
            winner |-> Null,
            has |-> {"board", "currentPlayer", "status", "winner"}]

\* The catch branch of safePostMove(gId, position, localBoard, localPlayer);
\* closureStatus is the status.state the enclosing render had.
LocalMove(position, localBoard, localPlayer, closureStatus) ==
  IF localBoard[position] # Null
  THEN [board |-> localBoard, currentPlayer |-> localPlayer,
        status |-> closureStatus, winner |-> Null,
        has |-> {"board", "currentPlayer", "status"}]
  ELSE LET nextBoard == [localBoard EXCEPT ![position] = localPlayer]
           outcome == checkWinner(nextBoard)
           newStatus == IF outcome = "draw" THEN "draw"
                        ELSE IF outcome = "X" \/ outcome = "O" THEN "won"
                        ELSE "in-progress"
       IN  [board |-> nextBoard,
            currentPlayer |-> IF newStatus = "in-progress"
                              THEN Flip(localPlayer) ELSE localPlayer,
            status |-> newStatus,
            winner |-> IF outcome = "X" \/ outcome = "O" THEN outcome ELSE Null,
            has |-> {"board", "currentPlayer", "status", "winner"}]

\* JavaScript's truthiness of `winner || newStatus === 'draw'`: the operand
\* winner when it is a mark (a non-empty string), the comparison otherwise.
WinnerOrDraw(winner, newStatus) ==
  IF winner # Null THEN TRUE ELSE newStatus = "draw"

\* The earlier variant's catch branch with the conditional read as
\* `winner || (newStatus === 'draw' ? currentPlayer : flipped)`.
safePostMoveEarlierMisparsed(position, closureBoard, closurePlayer, closureStatus) ==
  IF closureBoard[position] # Null
  THEN [board |-> closureBoard, currentPlayer |-> closurePlayer,
        status |-> closureStatus, winner |-> Null,
        has |-> {"board", "currentPlayer", "status"}]
  ELSE LET nextBoard == [closureBoard EXCEPT ![position] = closurePlayer]
           outcome == checkWinner(nextBoard)
           newStatus == IF outcome = "draw" THEN "draw"
                        ELSE IF outcome = "X" \/ outcome = "O" THEN "won"
                        ELSE "in-progress"
           winner == IF outcome = "X" \/ outcome = "O" THEN outcome ELSE Null
       IN  [board |-> nextBoard,
            currentPlayer |-> IF winner # Null THEN winner
                              ELSE IF newStatus = "draw" THEN closurePlayer
                              ELSE Flip(closurePlayer),
            status |-> newStatus,
            winner |-> winner,
            has |-> {"board", "currentPlayer", "status", "winner"}]

\* The catch branch of the earlier variant's safePostMove(gId, position), which
\* reads board, currentPlayer and status.state from its closure.
safePostMoveEarlier(position, closureBoard, closurePlayer, closureStatus) ==
  IF closureBoard[position] # Null
  THEN [board |-> closureBoard, currentPlayer |-> closurePlayer,
        status |-> closureStatus, winner |-> Null,
        has |-> {"board", "currentPlayer", "status"}]
  ELSE LET nextBoard == [closureBoard EXCEPT ![position] = closurePlayer]
           outcome == checkWinner(nextBoard)
           newStatus == IF outcome = "draw" THEN "draw"
                        ELSE IF outcome = "X" \/ outcome = "O" THEN "won"
                        ELSE "in-progress"
           winner == IF outcome = "X" \/ outcome = "O" THEN outcome ELSE Null
       IN  [board |-> nextBoard,
            currentPlayer |-> IF WinnerOrDraw(winner, newStatus)
                              THEN closurePlayer ELSE Flip(closurePlayer),
            status |-> newStatus,
            winner |-> winner,
            has |-> {"board", "currentPlayer", "status", "winner"}]

\* The object `updated` the remote answers with: its game after the move,
\* less the fields it omits.
RemoteMove(sg, position, r) ==
  LET after == ServerMove(sg, position)
  IN  [board |-> after.board, currentPlayer |-> after.currentPlayer,
       status |-> after.status, winner |-> after.winner, has |-> r.has]

\* handleSquareClick deriving a missing next mark by flipping whatever the
\* resulting status.
MoveResultAlwaysFlip(updated, snapshotBoard, snapshotPlayer) ==
  LET nextStatus == IF "status" \in updated.has THEN updated.status ELSE "in-progress"
  IN  [board |-> IF "board" \in updated.has THEN updated.board ELSE snapshotBoard,
       status |-> [state |-> nextStatus,
                   winner |-> IF "winner" \in updated.has THEN updated.winner ELSE Null],
       currentPlayer |->
         IF "currentPlayer" \in updated.has THEN updated.currentPlayer
         ELSE Flip(snapshotPlayer)]

\* nextBoard / nextStatus / nextWinner / nextPlayer of handleSquareClick.
MoveResult(updated, snapshotBoard, snapshotPlayer) ==
  LET nextStatus == IF "status" \in updated.has THEN updated.status ELSE "in-progress"
  IN  [board |-> IF "board" \in updated.has THEN updated.board ELSE snapshotBoard,
       status |-> [state |-> nextStatus,
                   winner |-> IF "winner" \in updated.has THEN updated.winner ELSE Null],
       currentPlayer |->
         IF "currentPlayer" \in updated.has THEN updated.currentPlayer
         ELSE IF nextStatus = "in-progress" THEN Flip(snapshotPlayer)
         ELSE snapshotPlayer]

\* setMoves numbering from the length of the log instead of length + 1.
MoveRecordZeroBased(prev, player, position) ==
  [moveNumber |-> Len(prev), player |-> player, position |-> position]

\* The record setMoves appends.
MoveRecord(prev, player, position) ==
  [moveNumber |-> Len(prev) + 1, player |-> player, position |-> position]

\* No call of a function outside the component has been made.
NoCall == [fn |-> "none"]

NoResult == [kind |-> "unset"]

\* ------------------------------------------------------------- api client

\* Texts are sequences of tokens; "/" is the slash.
DEFAULT_API_BASE_URL == << "http://localhost:3001" >>

\* What process.env holds for one variable: undefined, or a text.
Undefined == [defined |-> FALSE, text |-> << >>]

EnvValues ==
  {Undefined} \cup
  {[defined |-> TRUE, text |-> t] :
     t \in {<< >>, << "a" >>, << "a", "/" >>, << "b" >>, << "b", "/", "/" >>}}

Environments ==
  [REACT_APP_API_BASE : EnvValues, REACT_APP_BACKEND_URL : EnvValues,
   REACT_APP_API_BASE_URL : EnvValues]

\* JavaScript truthiness of an environment value.
Truthy(v) == v.defined /\ v.text # << >>

\* text.replace(/\/+$/, '')
RECURSIVE StripTrailingSlashes(_)
StripTrailingSlashes(t) ==
  IF t # << >> /\ t[Len(t)] = "/"
  THEN StripTrailingSlashes(SubSeq(t, 1, Len(t) - 1))
  ELSE t

getApiBaseUrl(env) ==
  LET envUrl == IF Truthy(env.REACT_APP_API_BASE_URL) THEN env.REACT_APP_API_BASE_URL.text
                ELSE IF Truthy(env.REACT_APP_BACKEND_URL) THEN env.REACT_APP_BACKEND_URL.text
                ELSE IF Truthy(env.REACT_APP_API_BASE) THEN env.REACT_APP_API_BASE.text
                ELSE << >>
  IN  StripTrailingSlashes(IF envUrl # << >> THEN envUrl ELSE DEFAULT_API_BASE_URL)

\* JavaScript values of a call's arguments: undefined, null, '', 0, 1 and a
\* non-empty string.
ArgValues == {"undefined", "null", "empty", "zero", "one", "text"}

\* !v
Falsy(v) == v \in {"undefined", "null", "empty", "zero"}

\* The result of an api method: it throws before any request, or it calls
\* request(path, options) once.
Thrown == [kind |-> "throw", requests |-> 0]

Requested(path) == [kind |-> "request", requests |-> 1, path |-> path]

createPlayer(name) == IF Falsy(name) THEN Thrown ELSE Requested("/players")

createGame(playerXId, playerOId) ==
  IF Falsy(playerXId) \/ Falsy(playerOId) THEN Thrown ELSE Requested("/games")

getGame(id) == IF Falsy(id) THEN Thrown ELSE Requested("/games/:id")

\* postMove testing the position with `!position`.
postMoveFalsyPosition(gId, position) ==
  IF Falsy(gId) THEN Thrown
  ELSE IF Falsy(position) THEN Thrown
  ELSE Requested("/games/:id/moves")

postMove(gId, position) ==
  IF Falsy(gId) THEN Thrown
  ELSE IF position = "undefined" \/ position = "null" THEN Thrown
  ELSE Requested("/games/:id/moves")

getHistory(gId) == IF Falsy(gId) THEN Thrown ELSE Requested("/games/:id/history")

ApiMethods == {"createPlayer", "createGame", "getGame", "postMove", "getHistory"}

\* The calls of the api client: createPlayer, getGame and getHistory read
\* their first argument only.
ApiCalls ==
  {[fn |-> f, a |-> x, b |-> y] : f \in {"createGame", "postMove"}, x \in ArgValues, y \in ArgValues}
  \cup {[fn |-> f, a |-> x, b |-> "undefined"] :
          f \in {"createPlayer", "getGame", "getHistory"}, x \in ArgValues}

ApiResult(c) ==
  CASE c.fn = "createPlayer" -> createPlayer(c.a)
    [] c.fn = "createGame" -> createGame(c.a, c.b)
    [] c.fn = "getGame" -> getGame(c.a)
    [] c.fn = "postMove" -> postMove(c.a, c.b)
    [] c.fn = "getHistory" -> getHistory(c.a)

\* ------------------------------------------------------------ leaderboard

\* A field of a leaderboard row the remote sent: absent (undefined or null,
\* which `??` and `?:` treat alike) or a number.
Missing == -1

MaxCount == 2

ExplicitScore == 7

CountValues == {Missing} \cup (0 .. MaxCount)

ScoreValues == {Missing, ExplicitScore}

Rows ==
  [wins : CountValues, win : CountValues, w : CountValues,
   draws : CountValues, d : CountValues,
   score : ScoreValues, points : ScoreValues, elo : ScoreValues]

\* a ?? b
Coalesce(a, b) == IF a # Missing THEN a ELSE b

\* The wins, draws and score of a row of normalizeLeaderboard.
normalizeLeaderboardRow(r) ==
  [wins |-> Coalesce(r.wins, Coalesce(r.win, Coalesce(r.w, 0))),
   draws |-> Coalesce(r.draws, Coalesce(r.d, 0)),
   score |-> Coalesce(r.score, Coalesce(r.points, Coalesce(r.elo,
               IF r.wins # Missing /\ r.wins # 0
               THEN r.wins * 3 + Coalesce(r.draws, 0)
               ELSE 0)))]

\* The fetches of the two panels that can await an answer at once.
MaxFetches == 3

\* The fetch-history requests the model follows.
MaxRequests == 3

FetchSlots == 1 .. MaxFetches

NoFetch == [kind |-> "none", gameId |-> Null]

\* useState({ loading: false, error: null, items: [] })
EmptyHistory == [loading |-> FALSE, error |-> Null, items |-> << >>]

\* Sidebar and its panels before their effects have run.
SidebarUnmounted ==
  [mounted |-> FALSE,
   activeGameId |-> Null,
   history |-> EmptyHistory,
   leaderboard |-> [loading |-> FALSE, error |-> Null, rows |-> << >>],
   fetches |-> [f \in FetchSlots |-> NoFetch],
   requests |-> 0,
   shownFor |-> Null,
   last |-> [tag |-> "construct", arg |-> Null]]

\* ---------------------------------------------------------------- actions

Init ==
  /\ board = EmptyBoard
  /\ currentPlayer = "X"
  /\ status = [state |-> "idle", winner |-> Null]
  /\ gameId = NoId
  /\ players = [X |-> Null, O |-> Null]
  /\ moves = << >>
  /\ isBusy = FALSE
  /\ error = Null
  /\ mounted = FALSE
  /\ ops = [s \in Slots |-> NoOp]
  /\ server = [n \in IdNums |-> DeadGame]
  /\ events = 0
  /\ lastEvent = "construct"
  /\ notified = << >>
  /\ resetFrom = "none"
  /\ evalBoard = EmptyBoard
  /\ evalResult = "unset"
  /\ sidebar = SidebarUnmounted
  /\ pureIn = NoCall
  /\ pureOut = NoResult

\* History bookkeeping: a move still in flight when a session is installed
\* was submitted before that session.
MarkStale(os) ==
  [s \in Slots |-> IF os[s].kind = "move" THEN [os[s] EXCEPT !.stale = TRUE] ELSE os[s]]

Finished(s) == [ops EXCEPT ![s] = NoOp]

\* init() up to its first await: setIsBusy(true); setError(null);
\* await safeCreatePlayer('Player X').
StartInit(event) ==
  /\ InFlight # Slots
  /\ isBusy' = TRUE
  /\ error' = Null
  /\ ops' = [ops EXCEPT ![FreeSlot] = [NoOp EXCEPT !.kind = "init", !.pc = "px"]]
  /\ lastEvent' = event
  /\ UNCHANGED <<board, currentPlayer, status, gameId, players, moves, server,
                 notified, resetFrom>>

\* The mount effect: init() and the registration of the 'new-game' listener.
Mount ==
  /\ ~mounted
  /\ mounted' = TRUE
  /\ StartInit("mount")
  /\ UNCHANGED evalVars

\* Navbar.onNewGame dispatches 'new-game'; the listener calls init().
NewGameEvent ==
  /\ mounted
  /\ StartInit("new-game")
  /\ UNCHANGED <<mounted, evalVars>>

\* resetGame up to its first await.
ResetGame ==
  /\ mounted
  /\ IF isBusy
     THEN UNCHANGED <<board, currentPlayer, status, gameId, players, moves,
                     isBusy, error, ops, server, lastEvent, notified,
                     resetFrom>>
     ELSE /\ InFlight # Slots
          /\ isBusy' = TRUE
          /\ error' = Null
          /\ LET px == IF HasId(players.X) THEN players.X ELSE "unset"
                 po == IF HasId(players.O) THEN players.O ELSE "unset"
                 pc == IF px = "unset" THEN "px" ELSE IF po = "unset" THEN "po" ELSE "game"
             IN  ops' = [ops EXCEPT ![FreeSlot] =
                           [NoOp EXCEPT !.kind = "reset", !.pc = pc, !.px = px, !.po = po]]
          /\ lastEvent' = "reset-accepted"
          /\ resetFrom' = status.state
          /\ UNCHANGED <<board, currentPlayer, status, gameId, players, moves, server,
                         notified>>
  /\ UNCHANGED <<mounted, evalVars>>

\* resetGame's catch block without setError(e).
ThrowSwallow(s, kind) ==
  IF kind = "init"
  THEN /\ error' = "TypeError"
       /\ isBusy' = FALSE
       /\ ops' = Finished(s)
       /\ server' = Collect(server, gameId, ops')
       /\ lastEvent' = "init-error"
       /\ UNCHANGED <<board, currentPlayer, status, gameId, moves, notified,
                       resetFrom>>
  ELSE /\ board' = EmptyBoard
       /\ currentPlayer' = "X"
       /\ status' = [state |-> "in-progress", winner |-> Null]
       /\ moves' = << >>
       /\ error' = Null
       /\ isBusy' = FALSE
       /\ ops' = MarkStale(Finished(s))
       /\ server' = Collect(server, gameId, ops')
       /\ lastEvent' = "reset-local"
       /\ notified' = << >>
       /\ UNCHANGED <<gameId, resetFrom>>

\* The catch / finally blocks of init and resetGame when px.id, po.id or g.id
\* is read off null.
Throw(s, kind) ==
  IF kind = "init"
  THEN /\ error' = "TypeError"
       /\ isBusy' = FALSE
       /\ ops' = Finished(s)
       /\ server' = Collect(server, gameId, ops')
       /\ lastEvent' = "init-error"
       /\ UNCHANGED <<board, currentPlayer, status, gameId, moves, notified,
                       resetFrom>>
  ELSE /\ board' = EmptyBoard
       /\ currentPlayer' = "X"
       /\ status' = [state |-> "in-progress", winner |-> Null]
       /\ moves' = << >>
       /\ error' = "TypeError"
       /\ isBusy' = FALSE
       /\ ops' = MarkStale(Finished(s))
       /\ server' = Collect(server, gameId, ops')
       /\ lastEvent' = "reset-local"
       /\ notified' = << >>
       /\ UNCHANGED <<gameId, resetFrom>>

\* A create-player call of init / resetGame settles, and the handler runs on
\* to its next await.
ResolveCreatePlayer(s, r) ==
  /\ ops[s].kind \in {"init", "reset"}
  /\ ops[s].pc \in {"px", "po"}
  /\ LET o == ops[s]
         p == safeCreatePlayer(r)
         o2 == IF o.pc = "px" THEN [o EXCEPT !.px = p] ELSE [o EXCEPT !.po = p]
         more == o.pc = "px" /\ (o.kind = "init" \/ o.po = "unset")
     IN  /\ players' = IF o.kind = "init" /\ o.pc = "po"
                       THEN [X |-> o2.px, O |-> o2.po] ELSE players
         /\ IF more
            THEN /\ ops' = [ops EXCEPT ![s] = [o2 EXCEPT !.pc = "po"]]
                 /\ lastEvent' = "player-resolved"
                 /\ UNCHANGED <<board, currentPlayer, status, gameId, moves,
                                isBusy, error, server, notified, resetFrom>>
            ELSE IF o2.px = Null \/ o2.po = Null
            THEN Throw(s, o.kind)
            ELSE /\ ops' = [ops EXCEPT ![s] = [o2 EXCEPT !.pc = "game"]]
                 /\ lastEvent' = "player-resolved"
                 /\ UNCHANGED <<board, currentPlayer, status, gameId, moves,
                                isBusy, error, server, notified, resetFrom>>
  /\ UNCHANGED <<mounted, evalVars>>

\* api.createGame rejects locally unless both ids are there.
GameOutcomes(o) == IF HasId(o.px) /\ HasId(o.po) THEN GameResponses ELSE FailOnly

\* init / resetGame without setMoves([]).
ResolveCreateGameKeepLog(s, r) ==
  /\ ops[s].kind \in {"init", "reset"}
  /\ ops[s].pc = "game"
  /\ r \in GameOutcomes(ops[s])
  /\ LET g == safeCreateGame(r, FreshNum)
         sess == SessionOf(g)
     IN  IF g.isNull
         THEN Throw(s, ops[s].kind)
         ELSE /\ gameId' = sess.gameId
              /\ board' = sess.board
              /\ currentPlayer' = sess.currentPlayer
              /\ status' = sess.status
              /\ moves' = moves
              /\ isBusy' = FALSE
              /\ ops' = MarkStale(Finished(s))
              /\ server' = Collect([server EXCEPT ![g.id.n] =
                                      IF r.kind = "ok" THEN NewServerGame ELSE DeadGame],
                                   gameId', ops')
              /\ lastEvent' = IF ops[s].kind = "init" THEN "init-installed"
                              ELSE "reset-installed"
              /\ notified' = << g.id >>
              /\ UNCHANGED error
  /\ UNCHANGED <<players, mounted, resetFrom, evalVars>>

\* The create-game call of init / resetGame settles: the new session is
\* installed, or the handler throws on a null game.
ResolveCreateGame(s, r) ==
  /\ ops[s].kind \in {"init", "reset"}
  /\ ops[s].pc = "game"
  /\ r \in GameOutcomes(ops[s])
  /\ LET g == safeCreateGame(r, FreshNum)
         sess == SessionOf(g)
     IN  IF g.isNull
         THEN Throw(s, ops[s].kind)
         ELSE /\ gameId' = sess.gameId
              /\ board' = sess.board
              /\ currentPlayer' = sess.currentPlayer
              /\ status' = sess.status
              /\ moves' = sess.moves
              /\ isBusy' = FALSE
              /\ ops' = MarkStale(Finished(s))
              /\ server' = Collect([server EXCEPT ![g.id.n] =
                                      IF r.kind = "ok" THEN NewServerGame ELSE DeadGame],
                                   gameId', ops')
              /\ lastEvent' = IF ops[s].kind = "init" THEN "init-installed"
                              ELSE "reset-installed"
              /\ notified' = << g.id >>
              /\ UNCHANGED error
  /\ UNCHANGED <<players, mounted, resetFrom, evalVars>>

\* handleSquareClick that never looks at the terminal status.
HandleSquareClickNoTerminalCheck(index) ==
  /\ mounted
  /\ IF isBusy
     THEN UNCHANGED <<isBusy, error, ops, lastEvent>>
     ELSE IF board[index] # Null
     THEN /\ error' = Null
          /\ UNCHANGED <<isBusy, ops, lastEvent>>
     ELSE /\ InFlight # Slots
          /\ error' = Null
          /\ isBusy' = TRUE
          /\ ops' = [ops EXCEPT ![FreeSlot] =
                       [NoOp EXCEPT !.kind = "move", !.pc = "post", !.index = index,
                                    !.snapshotBoard = board,
                                    !.snapshotPlayer = currentPlayer,
                                    !.gId = gameId,
                                    !.closureStatus = status.state]]
          /\ lastEvent' = "click-accepted"
  /\ UNCHANGED <<board, currentPlayer, status, gameId, players, moves, server,
                 mounted, notified, resetFrom, evalVars>>

\* handleSquareClick(index) up to its await of safePostMove.
HandleSquareClick(index) ==
  /\ mounted
  /\ IF isBusy
     THEN UNCHANGED <<isBusy, error, ops, lastEvent>>
     ELSE IF Terminal(status.state)
     THEN UNCHANGED <<isBusy, error, ops, lastEvent>>
     ELSE IF board[index] # Null
     THEN /\ error' = Null
          /\ UNCHANGED <<isBusy, ops, lastEvent>>
     ELSE /\ InFlight # Slots
          /\ error' = Null
          /\ isBusy' = TRUE
          /\ ops' = [ops EXCEPT ![FreeSlot] =
                       [NoOp EXCEPT !.kind = "move", !.pc = "post", !.index = index,
                                    !.snapshotBoard = board,
                                    !.snapshotPlayer = currentPlayer,
                                    !.gId = gameId,
                                    !.closureStatus = status.state]]
          /\ lastEvent' = "click-accepted"
  /\ UNCHANGED <<board, currentPlayer, status, gameId, players, moves, server,
                 mounted, notified, resetFrom, evalVars>>

\* api.postMove rejects locally without a game id; the remote rejects a
\* move it cannot place.
MoveOutcomes(o) == IF ServerAccepts(o.gId, o.index) THEN MoveResponses ELSE FailOnly

\* handleSquareClick whose setIsBusy(false) is not in a finally block.
ResolvePostMoveNoFinally(s, r) ==
  /\ ops[s].kind = "move"
  /\ r \in MoveOutcomes(ops[s])
  /\ LET o == ops[s]
         updated == IF r.kind = "fail"
                    THEN LocalMove(o.index, o.snapshotBoard, o.snapshotPlayer,
                                   o.closureStatus)
                    ELSE RemoteMove(server[o.gId.n], o.index, r)
         res == MoveResult(updated, o.snapshotBoard, o.snapshotPlayer)
     IN  IF r.kind = "null"
         THEN /\ error' = "TypeError"
              /\ isBusy' = isBusy
              /\ ops' = Finished(s)
              /\ server' = Collect(server, gameId, ops')
              /\ lastEvent' = "move-error"
              /\ UNCHANGED <<board, currentPlayer, status, moves>>
         ELSE /\ board' = res.board
              /\ currentPlayer' = res.currentPlayer
              /\ status' = res.status
              /\ moves' = Append(moves, MoveRecord(moves, o.snapshotPlayer, o.index))
              /\ isBusy' = FALSE
              /\ ops' = Finished(s)
              /\ server' = Collect(IF r.kind = "ok"
                                   THEN [server EXCEPT ![o.gId.n] =
                                           ServerMove(server[o.gId.n], o.index)]
                                   ELSE server,
                                   gameId, ops')
              /\ lastEvent' = IF r.kind = "ok" THEN "move-remote" ELSE "move-local"
              /\ UNCHANGED error
  /\ UNCHANGED <<gameId, players, mounted, notified, resetFrom, evalVars>>

\* The post-move call settles and handleSquareClick runs to its end.
ResolvePostMove(s, r) ==
  /\ ops[s].kind = "move"
  /\ r \in MoveOutcomes(ops[s])
  /\ LET o == ops[s]
         updated == IF r.kind = "fail"
                    THEN LocalMove(o.index, o.snapshotBoard, o.snapshotPlayer,
                                   o.closureStatus)
                    ELSE RemoteMove(server[o.gId.n], o.index, r)
         res == MoveResult(updated, o.snapshotBoard, o.snapshotPlayer)
     IN  IF r.kind = "null"
         THEN /\ error' = "TypeError"
              /\ isBusy' = FALSE
              /\ ops' = Finished(s)
              /\ server' = Collect(server, gameId, ops')
              /\ lastEvent' = "move-error"
              /\ UNCHANGED <<board, currentPlayer, status, moves>>
         ELSE /\ board' = res.board
              /\ currentPlayer' = res.currentPlayer
              /\ status' = res.status
              /\ moves' = Append(moves, MoveRecord(moves, o.snapshotPlayer, o.index))
              /\ isBusy' = FALSE
              /\ ops' = Finished(s)
              /\ server' = Collect(IF r.kind = "ok"
                                   THEN [server EXCEPT ![o.gId.n] =
                                           ServerMove(server[o.gId.n], o.index)]
                                   ELSE server,
                                   gameId, ops')
              /\ lastEvent' = IF r.kind = "ok" THEN "move-remote" ELSE "move-local"
              /\ UNCHANGED error
  /\ UNCHANGED <<gameId, players, mounted, notified, resetFrom, evalVars>>

\* ------------------------------------------------------------- the sidebar

\* The longest move list a history payload carries.
MaxMoves == 2

\* The cell positions a history entry names.
PositionValues == {Missing, 0, 4}

\* An element of a history payload's list: JSON null, or an object whose
\* position, pos, cell and player members are present or not (null and
\* undefined behave alike under ?? and under the filter).
NullEntry == [nullish |-> TRUE, position |-> Missing, pos |-> Missing,
              cell |-> Missing, player |-> "absent"]

HistoryEntries ==
  {NullEntry} \cup
  [nullish : {FALSE}, position : PositionValues, pos : PositionValues,
   cell : PositionValues, player : {"absent", "X"}]

MoveLists == UNION {[1 .. n -> HistoryEntries] : n \in 0 .. MaxMoves}

\* What getHistory resolves to: nothing (204 or null), a bare list, an object
\* with a moves list, or an object without one.
HistoryPayloads ==
  {[shape |-> "null", moves |-> << >>], [shape |-> "object", moves |-> << >>]}
    \cup {[shape |-> sh, moves |-> ms] : sh \in {"array", "wrapper"}, ms \in MoveLists}

\* The filter of normalizeHistory.
KeepsPosition(m) == m.position # Missing

\* normalizeHistory(payload): reading a member of a null element throws.
normalizeHistory(payload) ==
  IF payload.shape = "null"
  THEN [kind |-> "items", items |-> << >>]
  ELSE LET ms == IF payload.shape \in {"array", "wrapper"} THEN payload.moves ELSE << >>
           mapped == [k \in 1 .. Len(ms) |->
                        [moveNumber |-> k,
                         player |-> IF ms[k].player # "absent" THEN ms[k].player ELSE "?",
                         position |-> Coalesce(ms[k].position,
                                        Coalesce(ms[k].pos,
                                          Coalesce(ms[k].cell, Missing)))]]
       IN  IF \E k \in 1 .. Len(ms) : ms[k].nullish
           THEN [kind |-> "throw", items |-> << >>]
           ELSE [kind |-> "items", items |-> SelectSeq(mapped, KeepsPosition)]

\* A row of the leaderboard and the payloads getLeaderboard resolves to:
\* nothing, a list of rows, or a list holding null.
PanelRow ==
  [wins |-> 2, win |-> Missing, w |-> Missing, draws |-> 1, d |-> Missing,
   score |-> Missing, points |-> Missing, elo |-> Missing]

LeaderboardPayloads ==
  {[shape |-> "null", rows |-> << >>], [shape |-> "array", rows |-> << >>],
   [shape |-> "array", rows |-> << PanelRow >>],
   [shape |-> "array-of-null", rows |-> << >>]}

\* normalizeLeaderboard(payload): reading a member of a null row throws.
normalizeLeaderboard(payload) ==
  IF payload.shape = "null" THEN [kind |-> "rows", rows |-> << >>]
  ELSE IF payload.shape = "array-of-null" THEN [kind |-> "throw", rows |-> << >>]
  ELSE [kind |-> "rows",
        rows |-> [k \in 1 .. Len(payload.rows) |-> normalizeLeaderboardRow(payload.rows[k])]]

\* The history payloads the panel is given.
PanelPayloads ==
  {[shape |-> "null", moves |-> << >>],
   [shape |-> "array", moves |-> << >>],
   [shape |-> "array",
    moves |-> << [nullish |-> FALSE, position |-> 4, pos |-> Missing,
                  cell |-> Missing, player |-> "X"] >>],
   [shape |-> "wrapper",
    moves |-> << [nullish |-> FALSE, position |-> Missing, pos |-> 0,
                  cell |-> Missing, player |-> "absent"],
                 [nullish |-> FALSE, position |-> Missing, pos |-> Missing,
                  cell |-> Missing, player |-> "X"] >>],
   [shape |-> "array", moves |-> << NullEntry >>]}

\* What a getHistory or getLeaderboard call can come back with.
HistoryOutcomes ==
  {[kind |-> "reject", payload |-> [shape |-> "null", moves |-> << >>]]}
    \cup {[kind |-> "ok", payload |-> p] : p \in PanelPayloads}

LeaderboardOutcomes ==
  {[kind |-> "reject", payload |-> [shape |-> "null", rows |-> << >>]]}
    \cup {[kind |-> "ok", payload |-> p] : p \in LeaderboardPayloads}

\* The game identifiers of the notifications, and the details an
\* 'active-game-changed' event can carry: no detail, or a gameId member.
GameIdValues == {"g1", "g2"}

NotifyValues == {"no-detail", "undefined", "null", "empty", "zero"} \cup GameIdValues

\* e && e.detail && e.detail.gameId
HasGameId(v) == v # "no-detail" /\ ~Falsy(v)

FreeFetch(sb) == CHOOSE f \in FetchSlots : sb.fetches[f].kind = "none"

\* A fetch-history request can be followed.
CanFetch(sb) ==
  /\ \E f \in FetchSlots : sb.fetches[f].kind = "none"
  /\ sb.requests < MaxRequests

\* fetchHistory without its `if (!gameId)` branch: api.getHistory(null)
\* rejects before any request and the catch block records the error.
fetchHistoryNoGuard(sb) ==
  IF sb.activeGameId = Null
  THEN [sb EXCEPT !.history = [loading |-> FALSE, error |-> "Error", items |-> << >>],
                  !.shownFor = Null]
  ELSE [sb EXCEPT !.history = [@ EXCEPT !.loading = TRUE, !.error = Null],
                  !.fetches[FreeFetch(sb)] =
                     [kind |-> "history", gameId |-> sb.activeGameId],
                  !.requests = @ + getHistory(sb.activeGameId).requests]

\* fetchHistory up to its await, for the gameId of the render sb.
fetchHistory(sb) ==
  IF sb.activeGameId = Null
  THEN [sb EXCEPT !.history = EmptyHistory, !.shownFor = Null]
  ELSE [sb EXCEPT !.history = [@ EXCEPT !.loading = TRUE, !.error = Null],
                  !.fetches[FreeFetch(sb)] =
                     [kind |-> "history", gameId |-> sb.activeGameId],
                  !.requests = @ + getHistory(sb.activeGameId).requests]

\* fetchLeaderboard up to its await.
fetchLeaderboard(sb) ==
  [sb EXCEPT !.leaderboard = [@ EXCEPT !.loading = TRUE, !.error = Null],
             !.fetches[FreeFetch(sb)] = [kind |-> "leaderboard", gameId |-> Null]]

\* The first render's effects: both panels fetch, the listener is added.
SidebarMount ==
  /\ ~sidebar.mounted
  /\ sidebar' = [fetchLeaderboard(fetchHistory([sidebar EXCEPT !.mounted = TRUE]))
                   EXCEPT !.last = [tag |-> "mount", arg |-> Null]]
  /\ UNCHANGED <<sessionVars, events, evalBoard, evalResult, pureIn, pureOut>>

\* onActiveGame adopting an identifier only while it has none.
ActiveGameChangedFirstOnly(v) ==
  /\ sidebar.mounted
  /\ IF HasGameId(v) /\ sidebar.activeGameId = Null
     THEN /\ CanFetch(sidebar)
          /\ sidebar' = [fetchHistory([sidebar EXCEPT !.activeGameId = v])
                           EXCEPT !.last = [tag |-> "notified", arg |-> v]]
     ELSE sidebar' = [sidebar EXCEPT !.last = [tag |-> "notified", arg |-> v]]
  /\ UNCHANGED <<sessionVars, events, evalBoard, evalResult, pureIn, pureOut>>

\* onActiveGame(e), and for a new identifier the render and the effect that
\* follow setActiveGameId.
ActiveGameChanged(v) ==
  /\ sidebar.mounted
  /\ IF HasGameId(v) /\ v # sidebar.activeGameId
     THEN /\ CanFetch(sidebar)
          /\ sidebar' = [fetchHistory([sidebar EXCEPT !.activeGameId = v])
                           EXCEPT !.last = [tag |-> "notified", arg |-> v]]
     ELSE sidebar' = [sidebar EXCEPT !.last = [tag |-> "notified", arg |-> v]]
  /\ UNCHANGED <<sessionVars, events, evalBoard, evalResult, pureIn, pureOut>>

\* The Refresh button of the history panel.
RefreshHistory ==
  /\ sidebar.mounted
  /\ sidebar.activeGameId # Null => CanFetch(sidebar)
  /\ sidebar' = [fetchHistory(sidebar) EXCEPT !.last = [tag |-> "refresh", arg |-> Null]]
  /\ UNCHANGED <<sessionVars, events, evalBoard, evalResult, pureIn, pureOut>>

\* The Refresh button of the leaderboard panel.
RefreshLeaderboard ==
  /\ sidebar.mounted
  /\ \E f \in FetchSlots : sidebar.fetches[f].kind = "none"
  /\ sidebar' = [fetchLeaderboard(sidebar)
                   EXCEPT !.last = [tag |-> "refresh-leaderboard", arg |-> Null]]
  /\ UNCHANGED <<sessionVars, events, evalBoard, evalResult, pureIn, pureOut>>

\* fetchHistory after its await, with a catch block that leaves loading as
\* it is.
ResolveHistoryKeepLoading(f, out) ==
  /\ sidebar.fetches[f].kind = "history"
  /\ LET n == normalizeHistory(out.payload)
         failed == out.kind = "reject" \/ n.kind = "throw"
     IN  sidebar' =
           [sidebar EXCEPT
              !.fetches[f] = NoFetch,
              !.history =
                 IF failed
                 THEN [@ EXCEPT !.error = IF out.kind = "reject" THEN "Error" ELSE "TypeError",
                                !.items = << >>]
                 ELSE [loading |-> FALSE, error |-> Null, items |-> n.items],
              !.shownFor = sidebar.fetches[f].gameId,
              !.last = [tag |-> IF failed THEN "history-error" ELSE "history-ok",
                        arg |-> sidebar.fetches[f].gameId]]
  /\ UNCHANGED <<sessionVars, events, evalBoard, evalResult, pureIn, pureOut>>

\* fetchHistory after its await: the try block's normalizeHistory and
\* setState, or the catch block.
ResolveHistory(f, out) ==
  /\ sidebar.fetches[f].kind = "history"
  /\ LET n == normalizeHistory(out.payload)
         failed == out.kind = "reject" \/ n.kind = "throw"
     IN  sidebar' =
           [sidebar EXCEPT
              !.fetches[f] = NoFetch,
              !.history =
                 IF failed
                 THEN [loading |-> FALSE,
                       error |-> IF out.kind = "reject" THEN "Error" ELSE "TypeError",
                       items |-> << >>]
                 ELSE [loading |-> FALSE, error |-> Null, items |-> n.items],
              !.shownFor = sidebar.fetches[f].gameId,
              !.last = [tag |-> IF failed THEN "history-error" ELSE "history-ok",
                        arg |-> sidebar.fetches[f].gameId]]
  /\ UNCHANGED <<sessionVars, events, evalBoard, evalResult, pureIn, pureOut>>

\* fetchLeaderboard after its await.
ResolveLeaderboard(f, out) ==
  /\ sidebar.fetches[f].kind = "leaderboard"
  /\ LET n == normalizeLeaderboard(out.payload)
         failed == out.kind = "reject" \/ n.kind = "throw"
     IN  sidebar' =
           [sidebar EXCEPT
              !.fetches[f] = NoFetch,
              !.leaderboard =
                 IF failed
                 THEN [loading |-> FALSE,
                       error |-> IF out.kind = "reject" THEN "Error" ELSE "TypeError",
                       rows |-> << >>]
                 ELSE [loading |-> FALSE, error |-> Null, rows |-> n.rows],
              !.last = [tag |-> IF failed THEN "leaderboard-error" ELSE "leaderboard-ok",
                        arg |-> Null]]
  /\ UNCHANGED <<sessionVars, events, evalBoard, evalResult, pureIn, pureOut>>

\* ---------------------------------------------------------- specifications

\* A step of the component that the model does not count.
Step(A) == A /\ UNCHANGED events

\* A user event of Spec: counted when it starts a handler's remote work.
UserEvent(A) ==
  /\ events < MaxEvents
  /\ A
  /\ events' = IF ops' = ops THEN events ELSE events + 1

\* Every interleaving of user events and remote outcomes.
Next ==
  \/ Step(Mount)
  \/ UserEvent(NewGameEvent)
  \/ UserEvent(ResetGame)
  \/ \E i \in ClickCells : UserEvent(HandleSquareClick(i))
  \/ \E s \in Slots, r \in PlayerResponses : Step(ResolveCreatePlayer(s, r))
  \/ \E s \in Slots, r \in GameResponses : Step(ResolveCreateGame(s, r))
  \/ \E s \in Slots, r \in MoveResponses : Step(ResolvePostMove(s, r))

Spec == Init /\ [][Next]_vars

\* The remote call slot s is waiting for settles, one way or another.
Settle(s) ==
  \/ \E r \in PlayerResponses : Step(ResolveCreatePlayer(s, r))
  \/ \E r \in GameResponses : Step(ResolveCreateGame(s, r))
  \/ \E r \in MoveResponses : Step(ResolvePostMove(s, r))

\* A user event of SpecLive, counted like those of Spec.
LiveEvent(A) ==
  /\ events < MaxLiveEvents
  /\ A
  /\ events' = IF ops' = ops THEN events ELSE events + 1

\* Mount, then user events on one cell, Reset and the navbar's New Game.
NextLive ==
  \/ Step(Mount)
  \/ LiveEvent(NewGameEvent)
  \/ LiveEvent(ResetGame)
  \/ LiveEvent(HandleSquareClick(0))
  \/ \E s \in Slots : Settle(s)

\* Every remote call eventually resolves or rejects.
SpecLive == Init /\ [][NextLive]_vars /\ \A s \in Slots : WF_vars(Settle(s))

\* The remote is unreachable (every call rejects) and the user plays the
\* game started at mount to its end, on all nine cells.
NextOffline ==
  \/ Step(Mount)
  \/ \E i \in Cells : Step(HandleSquareClick(i))
  \/ \E s \in Slots : Step(ResolveCreatePlayer(s, "fail"))
  \/ \E s \in Slots, r \in FailOnly : Step(ResolveCreateGame(s, r))
  \/ \E s \in Slots, r \in FailOnly : Step(ResolvePostMove(s, r))

SpecOffline == Init /\ [][NextOffline]_vars

\* The remote is unreachable and the navbar's New Game is in play too.
NextRace ==
  \/ Step(NewGameEvent)
  \/ \E i \in RaceCells : Step(HandleSquareClick(i))
  \/ \E s \in Slots : Step(ResolveCreatePlayer(s, "fail"))
  \/ \E s \in Slots, r \in FailOnly : Step(ResolveCreateGame(s, r))
  \/ \E s \in Slots, r \in FailOnly : Step(ResolvePostMove(s, r))

\* The scenario board [X,X,_,O,O,_,_,_,_] of an offline game, X to move:
\* the state SpecOffline reaches by the moves X0 O3 X1 O4.
MidGameBoard ==
  [c \in Cells |-> IF c \in {0, 1} THEN "X" ELSE IF c \in {3, 4} THEN "O" ELSE Null]

MidGameMoves ==
  << [moveNumber |-> 1, player |-> "X", position |-> 0],
     [moveNumber |-> 2, player |-> "O", position |-> 3],
     [moveNumber |-> 3, player |-> "X", position |-> 1],
     [moveNumber |-> 4, player |-> "O", position |-> 4] >>

MidGame ==
  /\ board = MidGameBoard
  /\ currentPlayer = "X"
  /\ status = [state |-> "in-progress", winner |-> Null]
  /\ gameId = [kind |-> "mock", n |-> 1]
  /\ players = [X |-> "mock", O |-> "mock"]
  /\ moves = MidGameMoves
  /\ isBusy = FALSE
  /\ error = Null
  /\ mounted = TRUE
  /\ ops = [s \in Slots |-> NoOp]
  /\ server = [n \in IdNums |-> DeadGame]
  /\ events = 0
  /\ lastEvent = "move-local"
  /\ notified = << [kind |-> "mock", n |-> 1] >>
  /\ resetFrom = "none"
  /\ evalBoard = EmptyBoard
  /\ evalResult = "unset"
  /\ sidebar = SidebarUnmounted
  /\ pureIn = NoCall
  /\ pureOut = NoResult

SpecRace == MidGame /\ [][NextRace]_vars

\* The board [X,O,X,X,O,O,O,X,_] of an offline game, X to move: the state
\* SpecOffline reaches by the moves X0 O1 X2 O4 X3 O5 X7 O6.
NearDrawBoard ==
  [c \in Cells |-> IF c \in {0, 2, 3, 7} THEN "X" ELSE IF c \in {1, 4, 5, 6} THEN "O" ELSE Null]

NearDrawMoves ==
  << [moveNumber |-> 1, player |-> "X", position |-> 0],
     [moveNumber |-> 2, player |-> "O", position |-> 1],
     [moveNumber |-> 3, player |-> "X", position |-> 2],
     [moveNumber |-> 4, player |-> "O", position |-> 4],
     [moveNumber |-> 5, player |-> "X", position |-> 3],
     [moveNumber |-> 6, player |-> "O", position |-> 5],
     [moveNumber |-> 7, player |-> "X", position |-> 7],
     [moveNumber |-> 8, player |-> "O", position |-> 6] >>

NearDraw ==
  /\ board = NearDrawBoard
  /\ currentPlayer = "X"
  /\ status = [state |-> "in-progress", winner |-> Null]
  /\ gameId = [kind |-> "mock", n |-> 1]
  /\ players = [X |-> "mock", O |-> "mock"]
  /\ moves = NearDrawMoves
  /\ isBusy = FALSE
  /\ error = Null
  /\ mounted = TRUE
  /\ ops = [s \in Slots |-> NoOp]
  /\ server = [n \in IdNums |-> DeadGame]
  /\ events = 0
  /\ lastEvent = "move-local"
  /\ notified = << [kind |-> "mock", n |-> 1] >>
  /\ resetFrom = "none"
  /\ evalBoard = EmptyBoard
  /\ evalResult = "unset"
  /\ sidebar = SidebarUnmounted
  /\ pureIn = NoCall
  /\ pureOut = NoResult

\* The state Spec reaches when both create-player calls of the mount's init
\* resolve to null: px.id throws, the status stays 'idle' and no game is set.
IdleAfterInitError ==
  /\ board = EmptyBoard
  /\ currentPlayer = "X"
  /\ status = [state |-> "idle", winner |-> Null]
  /\ gameId = NoId
  /\ players = [X |-> Null, O |-> Null]
  /\ moves = << >>
  /\ isBusy = FALSE
  /\ error = "TypeError"
  /\ mounted = TRUE
  /\ ops = [s \in Slots |-> NoOp]
  /\ server = [n \in IdNums |-> DeadGame]
  /\ events = 0
  /\ lastEvent = "init-error"
  /\ notified = << >>
  /\ resetFrom = "none"
  /\ evalBoard = EmptyBoard
  /\ evalResult = "unset"
  /\ sidebar = SidebarUnmounted
  /\ pureIn = NoCall
  /\ pureOut = NoResult

\* The cells that end the two boards above: 2 wins MidGameBoard for X, 8
\* fills NearDrawBoard.
ResetCells == {2, 8}

\* Reset / New Game against clicks, from an idle, a running, a nearly won and
\* a nearly drawn session, with every remote outcome.
NextReset ==
  \/ UserEvent(ResetGame)
  \/ UserEvent(NewGameEvent)
  \/ \E i \in ResetCells : UserEvent(HandleSquareClick(i))
  \/ \E s \in Slots, r \in PlayerResponses : Step(ResolveCreatePlayer(s, r))
  \/ \E s \in Slots, r \in GameResponses : Step(ResolveCreateGame(s, r))
  \/ \E s \in Slots, r \in MoveResponses : Step(ResolvePostMove(s, r))

SpecReset == (IdleAfterInitError \/ MidGame \/ NearDraw) /\ [][NextReset]_vars

\* The cells of the drawn game X0 O1 X2 O4 X3 O5 X7 O6 X8 in the order they
\* are played; NearDraw is that game before its last move.
DrawOrder == << 0, 1, 2, 4, 3, 5, 7, 6, 8 >>

\* The cell the user clicks next: the one the drawn game continues with on a
\* board of that many marks.
NextDrawCell(b) ==
  LET n == Cardinality({c \in Cells : b[c] # Null})
  IN  IF n < Len(DrawOrder) THEN {DrawOrder[n + 1]} ELSE {}

\* The remote is unreachable; the user plays the drawn game again and again
\* and the navbar's New Game is in play too.
NextReplay ==
  \/ LiveEvent(NewGameEvent)
  \/ \E i \in NextDrawCell(board) : Step(HandleSquareClick(i))
  \/ \E s \in Slots : Step(ResolveCreatePlayer(s, "fail"))
  \/ \E s \in Slots, r \in FailOnly : Step(ResolveCreateGame(s, r))
  \/ \E s \in Slots, r \in FailOnly : Step(ResolvePostMove(s, r))

SpecReplay == NearDraw /\ [][NextReplay]_vars

\* The board [X,X,_,O,O,_,_,_,_] of a game the remote created and on which it
\* answered every move in full: the state Spec's handlers reach by the moves
\* X0 O3 X1 O4.
MidGameRemote ==
  /\ board = MidGameBoard
  /\ currentPlayer = "X"
  /\ status = [state |-> "in-progress", winner |-> Null]
  /\ gameId = [kind |-> "remote", n |-> 1]
  /\ players = [X |-> "remote", O |-> "remote"]
  /\ moves = MidGameMoves
  /\ isBusy = FALSE
  /\ error = Null
  /\ mounted = TRUE
  /\ ops = [s \in Slots |-> NoOp]
  /\ server = [n \in IdNums |->
                 IF n = 1
                 THEN [live |-> TRUE, board |-> MidGameBoard, currentPlayer |-> "X",
                       status |-> "in-progress", winner |-> Null]
                 ELSE DeadGame]
  /\ events = 0
  /\ lastEvent = "move-remote"
  /\ notified = << [kind |-> "remote", n |-> 1] >>
  /\ resetFrom = "none"
  /\ evalBoard = EmptyBoard
  /\ evalResult = "unset"
  /\ sidebar = SidebarUnmounted
  /\ pureIn = NoCall
  /\ pureOut = NoResult

\* The cells that end the remote's game: 2 wins it for X, 5 for O.
RemoteCells == {2, 5}

\* A game in the remote's hands, with every remote outcome, against Reset and
\* the navbar's New Game.
NextRemote ==
  \/ UserEvent(NewGameEvent)
  \/ UserEvent(ResetGame)
  \/ \E i \in RemoteCells : UserEvent(HandleSquareClick(i))
  \/ \E s \in Slots, r \in PlayerResponses : Step(ResolveCreatePlayer(s, r))
  \/ \E s \in Slots, r \in GameResponses : Step(ResolveCreateGame(s, r))
  \/ \E s \in Slots, r \in MoveResponses : Step(ResolvePostMove(s, r))

SpecRemote == MidGameRemote /\ [][NextRemote]_vars

\* The component before its mount effect, as far as a call of a function
\* outside it is concerned.
Unmounted ==
  /\ board = EmptyBoard
  /\ currentPlayer = "X"
  /\ status = [state |-> "idle", winner |-> Null]
  /\ gameId = NoId
  /\ players = [X |-> Null, O |-> Null]
  /\ moves = << >>
  /\ isBusy = FALSE
  /\ error = Null
  /\ mounted = FALSE
  /\ ops = [s \in Slots |-> NoOp]
  /\ server = [n \in IdNums |-> DeadGame]
  /\ events = 0
  /\ lastEvent = "construct"
  /\ notified = << >>
  /\ resetFrom = "none"
  /\ evalBoard = EmptyBoard
  /\ evalResult = "unset"
  /\ sidebar = SidebarUnmounted

\* getApiBaseUrl under every environment.
InitApiBase ==
  /\ Unmounted
  /\ pureIn \in {[fn |-> "getApiBaseUrl", env |-> e] : e \in Environments}
  /\ pureOut = NoResult

CallGetApiBaseUrl ==
  /\ pureIn.fn = "getApiBaseUrl"
  /\ pureOut = NoResult
  /\ pureOut' = [kind |-> "value", text |-> getApiBaseUrl(pureIn.env)]
  /\ UNCHANGED <<pureIn, evalBoard, evalResult, events, sessionVars, sidebar>>

NextApiBase == CallGetApiBaseUrl

SpecApiBase == InitApiBase /\ [][NextApiBase]_vars

\* Every call of the api client's methods.
InitApi ==
  /\ Unmounted
  /\ pureIn \in ApiCalls
  /\ pureOut = NoResult

CallApi ==
  /\ pureIn.fn \in ApiMethods
  /\ pureOut = NoResult
  /\ pureOut' = ApiResult(pureIn)
  /\ UNCHANGED <<pureIn, evalBoard, evalResult, events, sessionVars, sidebar>>

NextApi == CallApi

SpecApi == InitApi /\ [][NextApi]_vars

\* normalizeLeaderboard on every row.
InitLeaderboard ==
  /\ Unmounted
  /\ pureIn \in {[fn |-> "normalizeLeaderboard", row |-> r] : r \in Rows}
  /\ pureOut = NoResult

NormalizeRow ==
  /\ pureIn.fn = "normalizeLeaderboard"
  /\ pureOut = NoResult
  /\ pureOut' = [kind |-> "row", row |-> normalizeLeaderboardRow(pureIn.row)]
  /\ UNCHANGED <<pureIn, evalBoard, evalResult, events, sessionVars, sidebar>>

NextLeaderboard == NormalizeRow

SpecLeaderboard == InitLeaderboard /\ [][NextLeaderboard]_vars

\* Both variants of the local move on every board, mark and empty cell.
InitFallback ==
  /\ Unmounted
  /\ \E b \in AllBoards, m \in Marks, c \in Cells :
       /\ b[c] = Null
       /\ pureIn = [fn |-> "safePostMove", board |-> b, mark |-> m, cell |-> c]
  /\ pureOut = NoResult

CallBothFallbacks ==
  /\ pureIn.fn = "safePostMove"
  /\ pureOut = NoResult
  /\ pureOut' = [kind |-> "pair",
                 earlier |-> safePostMoveEarlier(pureIn.cell, pureIn.board,
                                                 pureIn.mark, "in-progress"),
                 snapshot |-> LocalMove(pureIn.cell, pureIn.board,
                                        pureIn.mark, "in-progress")]
  /\ UNCHANGED <<pureIn, evalBoard, evalResult, events, sessionVars, sidebar>>

NextFallback == CallBothFallbacks

SpecFallback == InitFallback /\ [][NextFallback]_vars

\* The sidebar under every notification, refresh and remote outcome.
InitSidebar ==
  /\ Unmounted
  /\ pureIn = NoCall
  /\ pureOut = NoResult

NextSidebar ==
  \/ SidebarMount
  \/ \E v \in NotifyValues : ActiveGameChanged(v)
  \/ RefreshHistory
  \/ RefreshLeaderboard
  \/ \E f \in FetchSlots, out \in HistoryOutcomes : ResolveHistory(f, out)
  \/ \E f \in FetchSlots, out \in LeaderboardOutcomes : ResolveLeaderboard(f, out)

SpecSidebar == InitSidebar /\ [][NextSidebar]_vars

\* normalizeHistory on every payload.
InitHistory ==
  /\ Unmounted
  /\ \E p \in HistoryPayloads : pureIn = [fn |-> "normalizeHistory", payload |-> p]
  /\ pureOut = NoResult

NormalizeHistoryCall ==
  /\ pureIn.fn = "normalizeHistory"
  /\ pureOut = NoResult
  /\ pureOut' = normalizeHistory(pureIn.payload)
  /\ UNCHANGED <<pureIn, evalBoard, evalResult, events, sessionVars, sidebar>>

NextHistory == NormalizeHistoryCall

SpecHistory == InitHistory /\ [][NextHistory]_vars

\* The evaluator on every 9-cell board.
InitEval ==
  /\ board = EmptyBoard
  /\ currentPlayer = "X"
  /\ status = [state |-> "idle", winner |-> Null]
  /\ gameId = NoId
  /\ players = [X |-> Null, O |-> Null]
  /\ moves = << >>
  /\ isBusy = FALSE
  /\ error = Null
  /\ mounted = FALSE
  /\ ops = [s \in Slots |-> NoOp]
  /\ server = [n \in IdNums |-> DeadGame]
  /\ events = 0
  /\ lastEvent = "construct"
  /\ notified = << >>
  /\ resetFrom = "none"
  /\ evalBoard \in AllBoards
  /\ evalResult = "unset"
  /\ sidebar = SidebarUnmounted
  /\ pureIn = NoCall
  /\ pureOut = NoResult

Evaluate ==
  /\ evalResult = "unset"
  /\ evalResult' = checkWinner(evalBoard)
  /\ UNCHANGED <<evalBoard, pureIn, pureOut, events, sessionVars, sidebar>>

NextEval == Evaluate

SpecEval == InitEval /\ [][NextEval]_vars

\* ------------------------------------------------------------- properties

\* The eight lines, written out by rows, columns and diagonals.
LineSets ==
  {{3 * r, 3 * r + 1, 3 * r + 2} : r \in 0 .. 2}
    \cup {{c, c + 3, c + 6} : c \in 0 .. 2}
    \cup {{0, 4, 8}, {2, 4, 6}}

HasLine(b, w) == \E L \in LineSets : \A c \in L : b[c] = w

Full(b) == \A c \in Cells : b[c] # Null

\* The move log written, record by record, onto a board.
RECURSIVE Replay(_, _)
Replay(log, b) ==
  IF log = << >> THEN b
  ELSE Replay(Tail(log), [b EXCEPT ![Head(log).position] = Head(log).player])

\* A step in which the handler suspended in slot s runs to its end.
Ends(s, kind) == ops[s].kind = kind /\ ops'[s].kind = "none"

\* A step that installs a session: a new game identifier, or the end of a
\* resetGame (which resets the session on either of its paths).
InstallStep == gameId' # gameId \/ \E s \in Slots : Ends(s, "reset")

\* C1: at most one mutating session operation (submitMove, resetSession,
\* startSession) has an unresolved remote call at any time.
C1_AtMostOneInFlight == Cardinality(InFlight) <= 1

\* C2: a move submitted before the current session was installed changes
\* nothing of that session (board, mark-to-move, status, move log) when its
\* response arrives.
C2_StaleMoveNeverApplies ==
  [][\A s \in Slots :
       (Ends(s, "move") /\ ops[s].stale)
         => UNCHANGED <<board, currentPlayer, status, moves>>]_vars

\* C3: whenever no operation is in flight, replaying the move log onto an
\* empty board gives the current board.
C3_ReplayInvariant == (InFlight = {}) => Replay(moves, EmptyBoard) = board

\* C4: no click on an occupied cell, or while the status is won or draw,
\* changes board, mark-to-move, status or move log, or submits a move (so
\* nothing is appended later either).
C4_RejectedClickFrame ==
  [][\A i \in Cells :
       (board[i] # Null \/ Terminal(status.state))
         => ~(/\ ~UNCHANGED <<board, currentPlayer, status, moves, ops>>
              /\ HandleSquareClick(i))]_vars

\* C4 witness: a finished (drawn) game with the session idle, where every
\* click is one on an occupied cell under a terminal status.
C4_Witness ==
  mounted /\ ~isBusy /\ InFlight = {} /\ status.state = "draw" /\ Full(board)

\* C5: when init has installed its game, from the remote's response or from
\* the local fallback, the status is in-progress, the board empty, X to move
\* and the move log empty.
C5_StartSessionFresh ==
  lastEvent = "init-installed"
    => /\ status = [state |-> "in-progress", winner |-> Null]
       /\ board = EmptyBoard
       /\ currentPlayer = "X"
       /\ moves = << >>

\* C5 witness: init has just installed a game the remote created, in a
\* session that had moves before.
C5_Witness ==
  lastEvent = "init-installed" /\ gameId.kind = "remote" /\ events >= 2

\* C6: with the remote unreachable, init ends with a locally minted game
\* identifier, status in-progress, busy cleared and no error; every click on
\* an empty cell of a non-terminal, non-busy session submits a move for the
\* mark-to-move, and the move writes that mark into the cell (X on a fresh
\* game).
C6_OfflinePlayable ==
  /\ [](lastEvent \in {"init-installed", "init-error"}
          => /\ gameId.kind = "mock"
             /\ status.state = "in-progress"
             /\ ~isBusy
             /\ error = Null)
  /\ [][\A i \in Cells :
          (~isBusy /\ ~Terminal(status.state) /\ board[i] = Null /\ HandleSquareClick(i))
            => \E s \in Slots :
                 /\ ops[s].kind = "none"
                 /\ ops'[s].kind = "move"
                 /\ ops'[s].index = i
                 /\ ops'[s].snapshotPlayer = currentPlayer
                 /\ (moves = << >> /\ board = EmptyBoard => ops'[s].snapshotPlayer = "X")]_vars
  /\ [][\A s \in Slots :
          Ends(s, "move")
            => /\ board'[ops[s].index] = ops[s].snapshotPlayer
               /\ error' = Null]_vars

\* C6 witness: an offline game, started with a minted identifier, in which
\* moves have been played.
C6_Witness ==
  gameId.kind = "mock" /\ lastEvent = "move-local" /\ Len(moves) >= 2 /\ error = Null

\* The status the claim C7 expects for a board on which m has just moved.
ExpectedStatus(b, m) ==
  IF HasLine(b, m) THEN [state |-> "won", winner |-> m]
  ELSE IF HasLine(b, Flip(m)) THEN [state |-> "won", winner |-> Flip(m)]
  ELSE IF Full(b) THEN [state |-> "draw", winner |-> Null]
  ELSE [state |-> "in-progress", winner |-> Null]

\* C7: when the post-move call fails, a move of mark m on cell i of snapshot
\* board B ends with board = B plus m at i, the status the lines and the
\* fullness of that board give, the mark flipped only if the game goes on,
\* and the one record {log length + 1, m, i} appended.
C7_LocalMoveResult ==
  [][\A s \in Slots :
       Ends(s, "move")
         => LET B == ops[s].snapshotBoard
                m == ops[s].snapshotPlayer
                i == ops[s].index
                after == [B EXCEPT ![i] = m]
            IN  /\ B[i] = Null
                /\ board' = after
                /\ status' = ExpectedStatus(after, m)
                /\ currentPlayer' = IF status'.state = "in-progress" THEN Flip(m) ELSE m
                /\ moves' = Append(moves, [moveNumber |-> Len(moves) + 1,
                                           player |-> m, position |-> i])]_vars

\* C7 witness: the ninth move, computed locally, ends the game in a draw.
C7_Witness ==
  lastEvent = "move-local" /\ status.state = "draw" /\ Len(moves) = 9

\* C8: on a board with three equal marks on one of the eight lines, the
\* evaluator returns a mark that holds such a line, never draw or none.
C8_LineWins ==
  (evalResult # "unset" /\ (HasLine(evalBoard, "X") \/ HasLine(evalBoard, "O")))
    => evalResult \in Marks /\ HasLine(evalBoard, evalResult)

\* C8 witness: a full board with a line of O evaluates to O.
C8_Witness ==
  evalResult = "O" /\ Full(evalBoard) /\ ~HasLine(evalBoard, "X")

\* C9: on a board without a line, the evaluator returns draw exactly when
\* the board is full, and none when a cell is empty.
C9_DrawIffFull ==
  (evalResult # "unset" /\ ~HasLine(evalBoard, "X") /\ ~HasLine(evalBoard, "O"))
    => /\ (evalResult = "draw") <=> Full(evalBoard)
       /\ ~Full(evalBoard) => evalResult = Null

\* C9 witness: a full board without a line evaluates to draw.
C9_Witness ==
  evalResult = "draw" /\ Full(evalBoard)

\* C10: once the status is won or draw, board, mark-to-move, status, winner
\* and move log change only by the installation of a new session.
C10_TerminalFrozen ==
  [][(Terminal(status.state) /\ ~InstallStep)
       => UNCHANGED <<board, currentPlayer, status, moves>>]_vars

\* C11: a resetGame that was accepted ends, whatever the status it was
\* accepted in, with status in-progress, no winner, an empty board, X to move
\* and an empty move log.
C11_ResetEndsFresh ==
  lastEvent \in {"reset-installed", "reset-local"}
    => /\ status = [state |-> "in-progress", winner |-> Null]
       /\ board = EmptyBoard
       /\ currentPlayer = "X"
       /\ moves = << >>

\* C11 witness: a reset accepted on a drawn game has installed a game the
\* remote created.
C11_Witness ==
  /\ lastEvent = "reset-installed"
  /\ resetFrom = "draw"
  /\ gameId.kind = "remote"

C13_LastResortReset ==
  lastEvent = "reset-local"
    => /\ board = EmptyBoard
       /\ currentPlayer = "X"
       /\ status = [state |-> "in-progress", winner |-> Null]
       /\ moves = << >>
       /\ ~isBusy
       /\ error = "TypeError"

\* C13 witness: the last-resort reset of a won game, whose players were kept
\* and whose create-game call resolved to null.
C13_Witness ==
  /\ lastEvent = "reset-local"
  /\ resetFrom = "won"
  /\ players = [X |-> "mock", O |-> "mock"]

\* C14: each step that creates or re-creates the session (init's install,
\* resetGame's install, resetGame's last-resort reset) dispatches exactly one
\* 'active-game-changed' event, carrying the id of the game now active.
C14_OneNotificationPerSession ==
  lastEvent \in {"init-installed", "reset-installed", "reset-local"}
    => notified = << gameId >>

\* C15: while a create-player, create-game or post-move call of a handler is
\* pending, isBusy is true.
C15_BusyWhilePending == (InFlight # {}) => isBusy

\* C17: a click that is rejected (isBusy set, status won or draw, or the cell
\* occupied) issues no request and changes no field of the session, error
\* and isBusy included.
C17_RejectedClickNoOp ==
  [][\A i \in Cells :
       (isBusy \/ Terminal(status.state) \/ board[i] # Null)
         => ~(/\ ~UNCHANGED <<board, currentPlayer, status, gameId, players, moves,
                              isBusy, error, ops>>
              /\ HandleSquareClick(i))]_vars

\* C16: if every remote call eventually settles, then whenever isBusy is
\* true it is eventually false again, on every path of init, resetGame and
\* handleSquareClick.
C16_BusyEventuallyCleared == isBusy ~> ~isBusy

\* C16 witness: the exception path of handleSquareClick (the post-move call
\* resolved to null) has cleared isBusy.
C16_Witness == lastEvent = "move-error" /\ ~isBusy /\ InFlight = {}

\* The first truthy value in the documented order, else the default.
DocumentedBase(env) ==
  IF Truthy(env.REACT_APP_API_BASE) THEN env.REACT_APP_API_BASE.text
  ELSE IF Truthy(env.REACT_APP_BACKEND_URL) THEN env.REACT_APP_BACKEND_URL.text
  ELSE IF Truthy(env.REACT_APP_API_BASE_URL) THEN env.REACT_APP_API_BASE_URL.text
  ELSE DEFAULT_API_BASE_URL

\* C18: the base endpoint is the first non-empty value in the order
\* REACT_APP_API_BASE, REACT_APP_BACKEND_URL, REACT_APP_API_BASE_URL (its
\* trailing slashes stripped), and http://localhost:3001 when all three are
\* empty.
C18_BaseUrlOrder ==
  pureOut.kind = "value"
    => pureOut.text = StripTrailingSlashes(DocumentedBase(pureIn.env))

\* C19: when a leaderboard row has none of score, points, elo, the score of
\* the normalized row is 3 times its normalized wins plus its normalized
\* draws.
C19_DerivedScore ==
  (/\ pureOut.kind = "row"
   /\ pureIn.row.score = Missing
   /\ pureIn.row.points = Missing
   /\ pureIn.row.elo = Missing)
    => pureOut.row.score = 3 * pureOut.row.wins + pureOut.row.draws

\* An argument the caller left out: undefined, null or the empty string.
Absent(v) == v \in {"undefined", "null", "empty"}

\* The claim's "missing required input" for each method.
MissingInput(c) ==
  CASE c.fn \in {"createPlayer", "getGame", "getHistory"} -> Absent(c.a)
    [] c.fn = "createGame" -> Absent(c.a) \/ Absent(c.b)
    [] c.fn = "postMove" -> Absent(c.a) \/ c.b \in {"undefined", "null"}

\* C20: an api method called without a required input throws and issues no
\* request; postMove with position 0 and a game id issues its request.
C20_ValidationBeforeRequest ==
  pureOut.kind # "unset"
    => /\ MissingInput(pureIn) => (pureOut.kind = "throw" /\ pureOut.requests = 0)
       /\ (pureIn.fn = "postMove" /\ pureIn.a \in {"text", "one"} /\ pureIn.b = "zero")
            => (pureOut.kind = "request" /\ pureOut.requests = 1)

\* C20 witness: postMove(id, 0) has issued its request.
C20_Witness ==
  /\ pureIn.fn = "postMove"
  /\ pureIn.a = "text"
  /\ pureIn.b = "zero"
  /\ pureOut.kind = "request"

\* The status carries a winner exactly when it is won.
Consistent(st) ==
  IF st.state = "won" THEN st.winner \in Marks ELSE st.winner = Null

\* C21: in every reachable state, status won carries a winner X or O, and
\* idle, in-progress and draw carry none.
C21_StatusWinnerConsistent == Consistent(status)

\* C22: the board always has exactly nine cells, and within one game (between
\* two installations of a session) a cell that holds a mark keeps it.
C22_CellWrittenOnce ==
  /\ [](DOMAIN board = Cells /\ \A c \in Cells : board[c] \in Marks \cup {Null})
  /\ [][~InstallStep => \A c \in Cells : board[c] # Null => board'[c] = board[c]]_vars

C28_RemoteFallbackRule ==
  [][\A s \in Slots, r \in MoveResponses :
       (r.kind = "ok" /\ ResolvePostMove(s, r)) =>
         LET o == ops[s]
             after == ServerMove(server[o.gId.n], o.index)
         IN  /\ status'.state =
                  IF "status" \in r.has THEN after.status ELSE "in-progress"
             /\ status'.winner =
                  IF "winner" \in r.has THEN after.winner ELSE Null
             /\ currentPlayer' =
                  IF "currentPlayer" \in r.has THEN after.currentPlayer
                  ELSE IF status'.state = "in-progress" THEN Flip(o.snapshotPlayer)
                  ELSE o.snapshotPlayer
             /\ "board" \in r.has => board' = after.board]_vars

\* C28 witness: a winning move was answered by the remote with its status but
\* without winner, and the handler has adopted won with no winner.
C28_Witness ==
  /\ lastEvent = "move-remote"
  /\ status = [state |-> "won", winner |-> Null]
  /\ currentPlayer = "X"

\* C29: for every 9-cell board, mark and empty target cell, the earlier
\* variant of the local move yields the same next mark, board, status and
\* winner as the snapshot variant.
C29_FallbackVariantsAgree ==
  pureOut.kind = "pair" =>
    /\ pureOut.earlier.currentPlayer = pureOut.snapshot.currentPlayer
    /\ pureOut.earlier.board = pureOut.snapshot.board
    /\ pureOut.earlier.status = pureOut.snapshot.status
    /\ pureOut.earlier.winner = pureOut.snapshot.winner

\* C29 witness: both variants were applied to a move that wins the game and
\* kept the mover's mark.
C29_Witness ==
  /\ pureOut.kind = "pair"
  /\ pureOut.snapshot.status = "won"
  /\ pureOut.snapshot.winner = pureIn.mark
  /\ pureOut.earlier.currentPlayer = pureIn.mark

\* C30: resetGame issues a create-player request for a mark only when no
\* identity with an id is stored for that mark; with both identities stored it
\* issues none and hands the stored identities to create game.
C30_ResetReusesPlayers ==
  [][\A s \in Slots :
       LET accepted == ops[s].kind = "none" /\ ops'[s].kind = "reset"
           asksX == accepted /\ ops'[s].pc = "px"
           asksO == /\ ops'[s].kind = "reset"
                    /\ ops'[s].pc = "po"
                    /\ (accepted \/ ops[s].pc = "px")
       IN  /\ asksX => ~HasId(players.X)
           /\ asksO => ~HasId(players.O)
           /\ (accepted /\ HasId(players.X) /\ HasId(players.O)) =>
                 /\ ops'[s].pc = "game"
                 /\ ops'[s].px = players.X
                 /\ ops'[s].po = players.O]_vars

\* The entry names a cell by position, pos or cell.
Resolvable(e) ==
  ~e.nullish /\ (e.position # Missing \/ e.pos # Missing \/ e.cell # Missing)

\* C26: history normalization of a bare list or of a wrapper's moves list
\* returns, in the original order, exactly the entries that name a cell by
\* position, pos or cell; any other entry is dropped and the load never
\* fails.
C26_HistoryNormalization ==
  (pureIn.fn = "normalizeHistory" /\ pureOut # NoResult) =>
    LET ms == pureIn.payload.moves
        kept == {k \in 1 .. Len(ms) : Resolvable(ms[k])}
        items == pureOut.items
    IN  /\ pureOut.kind = "items"
        /\ Len(items) = Cardinality(kept)
        /\ \A i \in 1 .. Len(items) :
             /\ items[i].moveNumber \in kept
             /\ i > 1 => items[i - 1].moveNumber < items[i].moveNumber
             /\ LET e == ms[items[i].moveNumber]
                IN  items[i].position =
                      IF e.position # Missing THEN e.position
                      ELSE IF e.pos # Missing THEN e.pos ELSE e.cell

\* C23: while no game identifier has been received, the history panel has
\* issued no fetch-history request, awaits none, and shows an empty list with
\* no error, whatever mounts, refreshes and notifications without identifier
\* have happened.
C23_NoFetchWithoutGame ==
  sidebar.activeGameId = Null =>
    /\ sidebar.requests = 0
    /\ \A f \in FetchSlots : sidebar.fetches[f].kind # "history"
    /\ sidebar.history = [loading |-> FALSE, error |-> Null, items |-> << >>]

\* C23 witness: the history panel was refreshed by hand while it had no game
\* identifier.
C23_Witness ==
  /\ sidebar.mounted
  /\ sidebar.activeGameId = Null
  /\ sidebar.last.tag = "refresh"

\* C24: a notification carrying a game identifier other than the panel's
\* current one makes the panel adopt it and issue one fetch-history request,
\* for that identifier.
C24_AdoptsAndFetches ==
  [][\A v \in NotifyValues :
       (HasGameId(v) /\ v # sidebar.activeGameId /\ ActiveGameChanged(v)) =>
         /\ sidebar'.activeGameId = v
         /\ sidebar'.requests = sidebar.requests + 1
         /\ \E f \in FetchSlots :
              /\ sidebar.fetches[f].kind = "none"
              /\ sidebar'.fetches[f] = [kind |-> "history", gameId |-> v]
              /\ \A g \in FetchSlots \ {f} : sidebar'.fetches[g] = sidebar.fetches[g]]_vars

\* C24 witness: the panel held g1 and a notification of g2 has just been
\* handled.
C24_Witness ==
  /\ sidebar.last = [tag |-> "notified", arg |-> "g2"]
  /\ sidebar.activeGameId = "g2"
  /\ sidebar.requests >= 2
  /\ \E f \in FetchSlots : sidebar.fetches[f] = [kind |-> "history", gameId |-> "g2"]

\* C25: a history or leaderboard fetch that fails leaves its panel not
\* loading, with an empty list and the error recorded; and a panel is loading
\* only while one of its fetches awaits an answer.
C25_FetchFailureHandled ==
  /\ [](/\ sidebar.history.loading =>
             \E f \in FetchSlots : sidebar.fetches[f].kind = "history"
        /\ sidebar.leaderboard.loading =>
             \E f \in FetchSlots : sidebar.fetches[f].kind = "leaderboard")
  /\ [][\A f \in FetchSlots :
          /\ \A out \in HistoryOutcomes :
               (out.kind = "reject" /\ ResolveHistory(f, out)) =>
                 /\ ~sidebar'.history.loading
                 /\ sidebar'.history.items = << >>
                 /\ sidebar'.history.error = "Error"
          /\ \A out \in LeaderboardOutcomes :
               (out.kind = "reject" /\ ResolveLeaderboard(f, out)) =>
                 /\ ~sidebar'.leaderboard.loading
                 /\ sidebar'.leaderboard.rows = << >>
                 /\ sidebar'.leaderboard.error = "Error"]_vars

\* C25 witness: a history fetch was rejected and the panel shows the error.
C25_Witness ==
  /\ sidebar.last.tag = "history-error"
  /\ sidebar.history = [loading |-> FALSE, error |-> "Error", items |-> << >>]

\* C31: whenever the history panel has a game identifier and is not loading,
\* what it shows is the outcome of a request made for that identifier.
C31_HistoryOfActiveGame ==
  (sidebar.activeGameId # Null /\ ~sidebar.history.loading)
    => sidebar.shownFor = sidebar.activeGameId

\* C32: with the remote unreachable, whenever no operation is in flight the
\* status is won with winner w exactly when the board has a line of w, draw
\* exactly when the board is full without a line, and otherwise in-progress,
\* or idle before the first game.
C32_StatusAgreesWithBoard ==
  InFlight = {} =>
    /\ \A w \in Marks :
         (status = [state |-> "won", winner |-> w]) <=> HasLine(board, w)
    /\ (status = [state |-> "draw", winner |-> Null])
         <=> (Full(board) /\ ~HasLine(board, "X") /\ ~HasLine(board, "O"))
    /\ status.state \in {"won", "draw", "in-progress", "idle"}
    /\ status.state \in {"in-progress", "idle"} => status.winner = Null
    /\ status.state = "idle" => gameId = NoId

\* C32 witness: an offline game has been won by its last move and nothing is
\* in flight.
C32_Witness ==
  /\ InFlight = {}
  /\ gameId.kind = "mock"
  /\ lastEvent = "move-local"
  /\ status.state = "won"
  /\ HasLine(board, status.winner)

\* The number of cells of b holding mark m.
CountMarks(b, m) == Cardinality({c \in Cells : b[c] = m})

\* C33: with the remote unreachable, the board holds as many X as O or one
\* more, the records of the move log carry X, O, X, ... in turn, and while
\* the status is in-progress X is to move exactly when the counts are equal.
C33_TurnsAlternate ==
  /\ CountMarks(board, "X") - CountMarks(board, "O") \in {0, 1}
  /\ \A k \in 1 .. Len(moves) :
       moves[k].player = IF k % 2 = 1 THEN "X" ELSE "O"
  /\ status.state = "in-progress" =>
       ((currentPlayer = "X") <=> (CountMarks(board, "X") = CountMarks(board, "O")))

\* C34: with the remote unreachable every game ends: the move log never
\* holds more than nine records, a full board has status won or draw, and
\* once the status is won or draw no click is accepted.
C34_GameTerminates ==
  /\ [](Len(moves) <= BoardSize)
  /\ [](Full(board) => Terminal(status.state))
  /\ [][Terminal(status.state) =>
          \A s \in Slots : ~(ops[s].kind = "none" /\ ops'[s].kind = "move")]_vars

====
